---- MODULE Spec2Model ----
(***************************************************************************)
(* Spendwizer: the recurring-transaction materialization run at            *)
(* application start (App.tsx, processRecurringExpenses and the startup    *)
(* effect) over the localStorage collections of storageService.            *)
(*                                                                         *)
(* Time is counted in minutes since 00:00 UTC of 1 January EpochYear.  A   *)
(* stored date ("YYYY-MM-DD") is the triple <<y, m, d>>; a string that is  *)
(* no date is BadDate.  A JavaScript Date is [valid, t]: t the instant,    *)
(* valid = FALSE for Invalid Date.  The local zone is a fixed offset tz    *)
(* from UTC (no daylight-saving change inside a run).                      *)
(***************************************************************************)
EXTENDS Integers, Sequences, FiniteSets, TLC

VARIABLES
    tz,             \* local zone: minutes east of UTC
    now,            \* the wall clock (instant) of the current page load
    lsRules,        \* localStorage spendwizer_recurring
    lsExpenses,     \* localStorage spendwizer_expenses
    expenses,       \* React state: the in-memory transaction list
    toast,          \* React state: the toast and the count it reports
    pc,             \* position of the startup effect
    loadedExpenses, \* App.tsx:41   local of the startup effect
    rules,          \* App.tsx:83   local of processRecurringExpenses
    today,          \* App.tsx:84
    newExpenses,    \* App.tsx:85
    updatedRules,   \* App.tsx:86/89  result of the map, rule by rule
    hasUpdates,     \* App.tsx:87
    idx,            \* position of the map over the rules (1-based)
    nextDate,       \* App.tsx:90   cursor of the rule being mapped
    ruleUpdates,    \* App.tsx:91   instances generated for that rule
    processed,      \* App.tsx:45   value returned to the startup effect
    nextId,         \* source of fresh uuids
    runs,           \* page loads so far
    prev,           \* history: the previous completed page load
    made,           \* history: every instance generated: its id, rule and date
    effects,        \* history: the writes and the toast of this page load, in order
    lsUser,         \* localStorage spendwizer_user
    lsSession,      \* localStorage spendwizer_session is set
    user,           \* React state: the signed-in user
    ops,            \* user operations so far
    tabs,           \* other tabs on the same localStorage, each in its startup effect
    created,        \* history: every rule the form created: its id and date
    lastOp          \* history: the user operation done last on this page

vars == <<tz, now, lsRules, lsExpenses, expenses, toast, pc, loadedExpenses,
          rules, today, newExpenses, updatedRules, hasUpdates, idx, nextDate,
          ruleUpdates, processed, nextId, runs, prev, made, effects, lsUser,
          lsSession, user, ops, tabs,
                   created, lastOp>>

(***************************************************************************)
(* Bounds of the model.                                                    *)
(***************************************************************************)
MaxRules == 2       \* rules in the stored rule set
MaxRuns == 2        \* page loads in one behaviour
MaxSpin == 3        \* loop iterations followed while the cursor stands still

Absent == "undefined"          \* a field an object does not have
AbsentDate == <<>>             \* a date field an object does not have

\* a localStorage key: absent, or holding a JSON array
NoItem == [present |-> FALSE, items |-> <<>>]
Item(s) == [present |-> TRUE, items |-> s]

NoToast == [shown |-> FALSE, message |-> "", count |-> 0]
Toast(message, count) == [shown |-> TRUE, message |-> message, count |-> count]

\* the stored user record: absent, or an account
NoUser == [present |-> FALSE, email |-> "", password |-> "", name |-> "",
           darkMode |-> FALSE]

\* history: the user operation done last on this page, with what was entered
\* (the frequency when a rule was asked for) and whether it went through (a
\* valid amount, a confirmed question, a call that returned true)
NoOp == [kind |-> "none", ok |-> FALSE, repeat |-> FALSE, frequency |-> "",
         email |-> "", password |-> ""]
Op(kind, ok) == [NoOp EXCEPT !.kind = kind, !.ok = ok]

\* the other tabs open on the same localStorage, and a tab that is not open
Tabs == {"left", "right"}
TabClosed == [pc |-> "closed", loaded |-> <<>>, rules |-> <<>>, fresh |-> <<>>,
              updated |-> <<>>, has |-> FALSE, toast |-> NoToast]
NoRun == [valid |-> FALSE, now |-> 0, rules |-> <<>>, lsRules |-> NoItem,
          lsExpenses |-> NoItem]

(***************************************************************************)
(* Calendar: what new Date("YYYY-MM-DD") and format(d, 'yyyy-MM-dd')       *)
(* compute.                                                                *)
(***************************************************************************)
EpochYear == 2023
MinutesPerDay == 1440

IsLeap(y) == (y % 4 = 0 /\ y % 100 # 0) \/ y % 400 = 0

DaysInMonth(y, m) ==
    CASE m \in {4, 6, 9, 11} -> 30
      [] m = 2 -> IF IsLeap(y) THEN 29 ELSE 28
      [] OTHER -> 31

DaysInYear(y) == IF IsLeap(y) THEN 366 ELSE 365

RECURSIVE DaysBeforeYear(_)
DaysBeforeYear(y) ==
    IF y <= EpochYear THEN 0 ELSE DaysBeforeYear(y - 1) + DaysInYear(y - 1)

RECURSIVE DaysBeforeMonth(_, _)
DaysBeforeMonth(y, m) ==
    IF m <= 1 THEN 0 ELSE DaysBeforeMonth(y, m - 1) + DaysInMonth(y, m - 1)

\* day number of a calendar date (days since 1 January EpochYear)
EpochDay(s) == DaysBeforeYear(s[1]) + DaysBeforeMonth(s[1], s[2]) + s[3] - 1

RECURSIVE MonthFrom(_, _, _)
MonthFrom(n, y, m) ==
    IF n < DaysInMonth(y, m) THEN <<y, m, n + 1>>
    ELSE MonthFrom(n - DaysInMonth(y, m), y, m + 1)

RECURSIVE YearFrom(_, _)
YearFrom(n, y) ==
    IF n < DaysInYear(y) THEN MonthFrom(n, y, 1)
    ELSE YearFrom(n - DaysInYear(y), y + 1)

\* calendar date of a day number
CivilFromDays(n) == YearFrom(n, EpochYear)

BadDate == <<0, 0, 0>>

IsDateString(s) ==
    /\ s[1] >= EpochYear
    /\ s[2] \in 1..12
    /\ s[3] \in 1..DaysInMonth(s[1], s[2])

InvalidDate == [valid |-> FALSE, t |-> 0]

\* a faulty variant: an unparseable string is read as the epoch
NewDateLenient(s) ==
    IF IsDateString(s)
    THEN [valid |-> TRUE, t |-> EpochDay(s) * MinutesPerDay]
    ELSE [valid |-> TRUE, t |-> 0]

\* new Date(s): a date-only string is read as 00:00 UTC of that day
NewDate(s) ==
    IF IsDateString(s)
    THEN [valid |-> TRUE, t |-> EpochDay(s) * MinutesPerDay]
    ELSE InvalidDate

\* the local calendar day (number) an instant falls on
LocalDay(t) == (t + tz) \div MinutesPerDay

\* format(d, 'yyyy-MM-dd'): the local calendar date of d
Format(d) == CivilFromDays(LocalDay(d.t))

\* date-fns isBefore: instants compared, false for Invalid Date
isBefore(a, b) == a.valid /\ b.valid /\ a.t < b.t

\* date-fns isToday: same local calendar day as Date.now()
isToday(a) == a.valid /\ LocalDay(a.t) = LocalDay(now)

\* date-fns addDays: n local days later, same local time of day
addDays(d, n) == [valid |-> d.valid, t |-> d.t + n * MinutesPerDay]

(***************************************************************************)
(* storageService                                                          *)
(***************************************************************************)
getExpenses == IF lsExpenses.present THEN lsExpenses.items ELSE <<>>

getRecurringRules == IF lsRules.present THEN lsRules.items ELSE <<>>

\* a faulty variant: the new transaction is put last
addExpenseLast(e) == Item(getExpenses \o <<e>>)

\* part_003:67-71
addExpense(e) == Item(<<e>> \o getExpenses)

\* part_003:73-77 and App.tsx:141  the list with the transaction of e's id
\* replaced by e
Replaced(list, e) ==
    [i \in DOMAIN list |-> IF list[i].id = e.id THEN e ELSE list[i]]

updateExpense(e) == Item(Replaced(getExpenses, e))

\* part_003:79-83 and App.tsx:159  the list without the transaction id
Without(list, id) == SelectSeq(list, LAMBDA e : e.id # id)

deleteExpense(id) == Item(Without(getExpenses, id))

\* a faulty variant: the new rule replaces the stored ones
saveRecurringRuleAlone(rule) == Item(<<rule>>)

\* App.tsx:151-154
saveRecurringRule(rule) == Item(getRecurringRules \o <<rule>>)

(***************************************************************************)
(* processRecurringExpenses, piece by piece                                *)
(***************************************************************************)
Frequencies == {"daily", "weekly", "monthly", "yearly"}

\* a faulty variant: the occurrence dated today is due only once its instant has passed
IsDueStrict(d, t) == isBefore(d, t)

\* App.tsx:94  the loop condition
IsDue(d, t) == isBefore(d, t) \/ isToday(d)

\* a faulty variant: the active flag is not consulted
LoopRunsInactive(rule, d, t) == IsDue(d, t)

\* App.tsx:94-95  the loop body runs to the push
LoopRuns(rule, d, t) == IsDue(d, t) /\ rule.active

\* a faulty variant: every instance is an expense
InstanceTypeExpense(tpl) == "expense"

\* App.tsx:102
InstanceType(tpl) == IF tpl.type = Absent THEN "expense" ELSE tpl.type

\* App.tsx:97-103  the instance pushed for cursor d
MakeInstance(rule, d, id, createdAt) ==
    [ id          |-> id,
      amount      |-> rule.expenseTemplate.amount,
      category    |-> rule.expenseTemplate.category,
      paymentMode |-> rule.expenseTemplate.paymentMode,
      note        |-> rule.expenseTemplate.note,
      date        |-> Format(d),
      createdAt   |-> createdAt,
      type        |-> InstanceType(rule.expenseTemplate) ]

\* a faulty variant: a month is 31 days
AdvanceCursorMonth31(d, frequency) ==
    LET d1 == IF frequency = "daily"   THEN addDays(d, 1)    ELSE d
        d2 == IF frequency = "weekly"  THEN addDays(d1, 7)   ELSE d1
        d3 == IF frequency = "monthly" THEN addDays(d2, 31)  ELSE d2
        d4 == IF frequency = "yearly"  THEN addDays(d3, 365) ELSE d3
    IN d4

\* App.tsx:106-109  four independent tests of the frequency tag
AdvanceCursor(d, frequency) ==
    LET d1 == IF frequency = "daily"   THEN addDays(d, 1)    ELSE d
        d2 == IF frequency = "weekly"  THEN addDays(d1, 7)   ELSE d1
        d3 == IF frequency = "monthly" THEN addDays(d2, 30)  ELSE d2
        d4 == IF frequency = "yearly"  THEN addDays(d3, 365) ELSE d3
    IN d4

\* a faulty variant: the cursor is set to the day of the run
AdvancedRuleAtToday(rule, d, t) ==
    [rule EXCEPT !.nextDueDate = Format(t), !.lastRun = Format(t)]

\* a faulty variant: the returned rule is also set to repeat daily
AdvancedRuleDaily(rule, d, t) ==
    [rule EXCEPT !.nextDueDate = Format(d), !.lastRun = Format(t),
                 !.frequency = "daily"]

\* App.tsx:115  the rule returned when instances were generated
AdvancedRule(rule, d, t) ==
    [rule EXCEPT !.nextDueDate = Format(d), !.lastRun = Format(t)]

\* App.tsx:112-117  the value the map callback returns
MappedRule(rule, d, t, updates) ==
    IF Len(updates) > 0 THEN AdvancedRule(rule, d, t) ELSE rule

\* App.tsx:94-110  the whole loop for one rule taken alone: the cursors it
\* pushes an instance for, from cursor d (n counts the iterations on a cursor
\* that stands still)
RECURSIVE Cursors(_, _, _, _)
Cursors(rule, d, t, n) ==
    LET next == AdvanceCursor(d, rule.frequency) IN
    IF LoopRuns(rule, d, t) /\ (next # d \/ n < MaxSpin)
    THEN <<d>> \o Cursors(rule, next, t, n + 1)
    ELSE <<>>

\* App.tsx:100  the dates of those instances
Occurrences(rule, d, t, n) ==
    LET cs == Cursors(rule, d, t, n) IN [k \in DOMAIN cs |-> Format(cs[k])]

\* App.tsx:94-110  the cursor that loop ends on
RECURSIVE CursorAfter(_, _, _, _)
CursorAfter(rule, d, t, n) ==
    LET next == AdvanceCursor(d, rule.frequency) IN
    IF LoopRuns(rule, d, t) /\ (next # d \/ n < MaxSpin)
    THEN CursorAfter(rule, next, t, n + 1)
    ELSE d

\* a faulty variant: the rules are saved after every run
SavedRulesAlways(has, updated, stored) == Item(updated)

\* a faulty variant: the save keeps the stored rules it did not read
SavedRulesMerged(has, updated, stored) ==
    IF has
    THEN Item(updated \o
              SelectSeq(IF stored.present THEN stored.items ELSE <<>>,
                        LAMBDA r : \A i \in DOMAIN updated : updated[i].id # r.id))
    ELSE stored

\* App.tsx:120-121  the rule store after the run
SavedRules(has, updated, stored) == IF has THEN Item(updated) ELSE stored

\* a faulty variant: the toast is shown after every run
NotificationAlways(has, fresh, old) ==
    Toast("recurring expenses added", Len(fresh))

\* App.tsx:120-122  the toast of the run: shown only when something was added
Notification(has, fresh, old) ==
    IF has THEN Toast("recurring expenses added", Len(fresh)) ELSE old

\* a faulty variant: the instances are put before the collection as it is
\* stored now, not as it was loaded
ReturnedOnStored(has, fresh, current) ==
    IF has THEN fresh \o getExpenses ELSE current

\* a faulty variant: the generated instances are put after the collection
ReturnedAppended(has, fresh, current) ==
    IF has THEN current \o fresh ELSE current

\* App.tsx:120-125  the value processRecurringExpenses returns
Returned(has, fresh, current) == IF has THEN fresh \o current ELSE current

\* a faulty variant: the startup effect stores whatever came back
StartupWritesAlways(p, loaded) == Len(p) >= Len(loaded)

\* App.tsx:46
StartupWrites(p, loaded) == Len(p) > Len(loaded)

(***************************************************************************)
(* The stored state a page load may find.                                  *)
(***************************************************************************)
TZOffsets == {-300, 0, 330}          \* UTC-5, UTC, UTC+5:30
Todays == {<<2024, 3, 1>>, <<2024, 6, 3>>}
TimesOfDay == {0, 1380}              \* 00:00 and 23:00 local
DueOffsets == {-1, 0, 2, 5, 30}      \* days the stored cursor lies before today
Tags == Frequencies \cup {"hourly"}  \* "hourly": a tag the code does not know

Templates ==
    { [amount |-> 5000, category |-> "Salary", paymentMode |-> "Bank",
       note |-> "pay", type |-> "income"],
      [amount |-> 10, category |-> "Food", paymentMode |-> "Cash",
       note |-> Absent, type |-> Absent] }

Rule(f, s, a, tpl) ==
    [id |-> 0, frequency |-> f, nextDueDate |-> s, expenseTemplate |-> tpl,
     active |-> a, lastRun |-> AbsentDate]

DueStrings(day) == {CivilFromDays(day - k) : k \in DueOffsets} \cup {BadDate}

RuleChoices(day) ==
    {Rule(f, s, a, tpl) :
        f \in Tags, s \in DueStrings(day), a \in BOOLEAN, tpl \in Templates}

\* the rules stored beside the first one
Companions(day) ==
    { Rule("daily", CivilFromDays(day - 2), TRUE,
           [amount |-> 5000, category |-> "Salary", paymentMode |-> "Bank",
            note |-> "pay", type |-> "income"]),
      Rule("weekly", CivilFromDays(day + 1), TRUE,
           [amount |-> 10, category |-> "Food", paymentMode |-> "Cash",
            note |-> Absent, type |-> Absent]) }

WithIds(s) == [i \in DOMAIN s |-> [s[i] EXCEPT !.id = i]]

RuleLists(day) ==
    {<<>>} \cup
    UNION { {WithIds(<<r>> \o c) : r \in RuleChoices(day),
                                  c \in [1..n -> Companions(day)]} :
            n \in 0..(MaxRules - 1) }

\* a transaction entered by hand before the page load
OldExpense ==
    [id |-> 0, amount |-> 42, category |-> "Bills", paymentMode |-> "UPI",
     note |-> "rent", date |-> <<2024, 1, 15>>, createdAt |-> 0,
     type |-> "expense"]

\* App.tsx:18-29: the state of a page before its startup effect has run
Fresh ==
    /\ expenses = <<>>
    /\ toast = NoToast
    /\ pc = "boot"
    /\ loadedExpenses = <<>>
    /\ rules = <<>>
    /\ today = InvalidDate
    /\ newExpenses = <<>>
    /\ updatedRules = <<>>
    /\ hasUpdates = FALSE
    /\ idx = 1
    /\ nextDate = InvalidDate
    /\ ruleUpdates = <<>>
    /\ processed = <<>>
    /\ nextId = 1
    /\ runs = 1
    /\ prev = NoRun
    /\ made = <<>>
    /\ effects = <<>>
    /\ user = NoUser
    /\ ops = 0
    /\ tabs = [t \in Tabs |-> TabClosed]
    /\ created = <<>>
    /\ lastOp = NoOp

Init ==
    /\ tz \in TZOffsets
    /\ \E d \in Todays, m \in TimesOfDay :
          /\ now = EpochDay(d) * MinutesPerDay + m - tz
          /\ \E l \in RuleLists(EpochDay(d)) :
                lsRules \in IF l = <<>> THEN {NoItem, Item(<<>>)} ELSE {Item(l)}
    /\ lsExpenses \in {NoItem, Item(<<OldExpense>>)}
    /\ lsUser = NoUser
    /\ lsSession = FALSE
    /\ Fresh

(***************************************************************************)
(* The startup effect, step by step.                                       *)
(***************************************************************************)

\* App.tsx:41-45 and 83-87: load the transactions, enter
\* processRecurringExpenses, read the rules and the clock
Startup ==
    /\ pc = "boot"
    /\ loadedExpenses' = getExpenses
    /\ expenses' = getExpenses
    /\ rules' = getRecurringRules
    /\ today' = [valid |-> TRUE, t |-> now]
    /\ newExpenses' = <<>>
    /\ updatedRules' = <<>>
    /\ hasUpdates' = FALSE
    /\ idx' = 1
    /\ pc' = "map"
    /\ user' = IF lsSession /\ lsUser.present THEN lsUser ELSE user
    /\ effects' = <<>>
    /\ UNCHANGED <<tz, now, lsRules, lsExpenses, toast, nextDate,
                   ruleUpdates, processed, nextId, runs, prev, made, lsUser,
                   lsSession, ops, tabs,
                   created, lastOp>>

\* App.tsx:89-91: the map callback starts on the next rule
MapRule ==
    /\ pc = "map"
    /\ idx <= Len(rules)
    /\ nextDate' = NewDate(rules[idx].nextDueDate)
    /\ ruleUpdates' = <<>>
    /\ pc' = "loop"
    /\ UNCHANGED <<tz, now, lsRules, lsExpenses, expenses, toast,
                   loadedExpenses, rules, today, newExpenses, updatedRules,
                   hasUpdates, idx, processed, nextId, runs, prev, made,
                   effects, lsUser, lsSession, user, ops, tabs,
                   created, lastOp>>

\* App.tsx:94-110: one iteration of the while loop
LoopStep ==
    /\ pc = "loop"
    /\ LoopRuns(rules[idx], nextDate, today)
    /\ LET next == AdvanceCursor(nextDate, rules[idx].frequency) IN
          /\ next # nextDate \/ Len(ruleUpdates) < MaxSpin
          /\ nextDate' = next
    /\ ruleUpdates' =
          Append(ruleUpdates, MakeInstance(rules[idx], nextDate, nextId, now))
    /\ nextId' = nextId + 1
    /\ made' = Append(made, [id |-> nextId, rule |-> rules[idx].id,
                             date |-> Format(nextDate)])
    /\ UNCHANGED <<tz, now, lsRules, lsExpenses, expenses, toast, pc,
                   loadedExpenses, rules, today, newExpenses, updatedRules,
                   hasUpdates, idx, processed, runs, prev, effects, lsUser,
                   lsSession, user, ops, tabs,
                   created, lastOp>>

\* App.tsx:94-95 and 112-117: the loop ends, the callback returns its rule
LoopExit ==
    /\ pc = "loop"
    /\ ~LoopRuns(rules[idx], nextDate, today)
    /\ newExpenses' =
          IF Len(ruleUpdates) > 0 THEN newExpenses \o ruleUpdates
          ELSE newExpenses
    /\ hasUpdates' = (hasUpdates \/ Len(ruleUpdates) > 0)
    /\ updatedRules' =
          Append(updatedRules,
                 MappedRule(rules[idx], nextDate, today, ruleUpdates))
    /\ idx' = idx + 1
    /\ pc' = "map"
    /\ UNCHANGED <<tz, now, lsRules, lsExpenses, expenses, toast,
                   loadedExpenses, rules, today, nextDate, ruleUpdates,
                   processed, nextId, runs, prev, made, effects, lsUser,
                   lsSession, user, ops, tabs,
                   created, lastOp>>

\* App.tsx:120-125: save the rules, show the toast, return
ProcessReturn ==
    /\ pc = "map"
    /\ idx > Len(rules)
    /\ lsRules' = SavedRules(hasUpdates, updatedRules, lsRules)
    /\ toast' = Notification(hasUpdates, newExpenses, toast)
    /\ processed' = Returned(hasUpdates, newExpenses, loadedExpenses)
    /\ pc' = "store"
    /\ effects' = IF hasUpdates THEN effects \o <<"rules", "toast">>
                  ELSE effects
    /\ UNCHANGED <<tz, now, lsExpenses, expenses, loadedExpenses, rules,
                   today, newExpenses, updatedRules, hasUpdates, idx,
                   nextDate, ruleUpdates, nextId, runs, prev, made, lsUser,
                   lsSession, user, ops, tabs,
                   created, lastOp>>

\* App.tsx:46-51: the startup effect stores what came back
StartupStore ==
    /\ pc = "store"
    /\ expenses' =
          IF StartupWrites(processed, loadedExpenses) THEN processed
          ELSE expenses
    /\ lsExpenses' =
          IF StartupWrites(processed, loadedExpenses) THEN Item(processed)
          ELSE lsExpenses
    /\ pc' = "ready"
    /\ effects' = IF StartupWrites(processed, loadedExpenses)
                  THEN Append(effects, "expenses") ELSE effects
    /\ UNCHANGED <<tz, now, lsRules, toast, loadedExpenses, rules, today,
                   newExpenses, updatedRules, hasUpdates, idx, nextDate,
                   ruleUpdates, processed, nextId, runs, prev, made, lsUser,
                   lsSession, user, ops, tabs,
                   created, lastOp>>

\* App.tsx:47-48: localStorage.setItem throws (the quota is exceeded) after
\* setExpenses; the effect ends there with the rules already saved
StoreFails ==
    /\ pc = "store"
    /\ StartupWrites(processed, loadedExpenses)
    /\ expenses' = processed
    /\ pc' = "failed"
    /\ UNCHANGED <<tz, now, lsRules, lsExpenses, toast, loadedExpenses, rules,
                   today, newExpenses, updatedRules, hasUpdates, idx, nextDate,
                   ruleUpdates, processed, nextId, runs, prev, made, effects,
                   lsUser, lsSession, user, ops, tabs,
                   created, lastOp>>

ClockSteps == {0, MinutesPerDay, -MinutesPerDay}

\* the page is loaded again: at once, a day later, or with the clock set a day back
Reload ==
    /\ pc \in {"ready", "failed"}
    /\ runs < MaxRuns
    /\ \E step \in ClockSteps : now' = now + step
    /\ prev' = [valid |-> TRUE, now |-> now, rules |-> updatedRules,
                lsRules |-> lsRules, lsExpenses |-> lsExpenses]
    /\ runs' = runs + 1
    /\ expenses' = <<>>
    /\ toast' = NoToast
    /\ pc' = "boot"
    /\ user' = NoUser
    /\ lastOp' = NoOp
    /\ UNCHANGED <<tz, lsRules, lsExpenses, loadedExpenses, rules, today,
                   newExpenses, updatedRules, hasUpdates, idx, nextDate,
                   ruleUpdates, processed, nextId, made, effects, lsUser,
                   lsSession, ops, tabs, created>>

Next ==
    \/ Startup
    \/ MapRule
    \/ LoopStep
    \/ LoopExit
    \/ ProcessReturn
    \/ StartupStore
    \/ StoreFails
    \/ Reload

Spec == Init /\ [][Next]_vars

(***************************************************************************)
(* The signed-in application: what the user can do once the page is ready. *)
(***************************************************************************)
MaxOps == 3

\* what a user operation leaves alone: the locals of the startup effect
runVars == <<tz, now, pc, loadedExpenses, rules, today, newExpenses,
             updatedRules, hasUpdates, idx, nextDate, ruleUpdates, processed,
             runs, prev, made, effects, tabs>>

\* the accounts typed into the sign-up form
Account == [present |-> TRUE, email |-> "asha@example.in", password |-> "pw",
            name |-> "Asha", darkMode |-> FALSE]
Rival == [present |-> TRUE, email |-> "ravi@example.in", password |-> "pw",
          name |-> "Ravi", darkMode |-> FALSE]
Accounts == {Account, Rival}

\* Asha is the first to sign up on the device; once an account is stored,
\* either of them may try
SignupTries == IF lsUser.present THEN Accounts ELSE {Account}

Passwords == {"pw", "guess"}

\* what is typed into the login form
LoginTries == {[email |-> Account.email, password |-> p] : p \in Passwords}
                 \cup {[email |-> Rival.email, password |-> Rival.password]}

\* a faulty variant: signup takes the account whatever is stored
signupAlways == TRUE

\* part_003:31-41  what signup returns
signup == ~lsUser.present

\* a faulty variant: the password is not compared
loginByEmail(email, password) == lsUser.present /\ lsUser.email = email

\* part_003:44-54
login(email, password) ==
    lsUser.present /\ lsUser.email = email /\ lsUser.password = password

\* Auth.tsx:57-70, part_003:31-41, App.tsx:128-131: the sign-up form is sent
Signup ==
    /\ pc = "ready" /\ ops < MaxOps
    /\ ~user.present
    /\ \E account \in SignupTries :
          /\ lastOp' = [Op("signup", signup) EXCEPT
                           !.email = account.email,
                           !.password = account.password]
          /\ IF signup
             THEN lsUser' = account /\ lsSession' = TRUE /\ user' = account
             ELSE UNCHANGED <<lsUser, lsSession, user>>
    /\ ops' = ops + 1
    /\ UNCHANGED <<lsRules, lsExpenses, expenses, toast, nextId, created>>
    /\ UNCHANGED runVars

\* Auth.tsx:42-54, part_003:44-54, App.tsx:128-131: the login form is sent
Login ==
    /\ pc = "ready" /\ ops < MaxOps
    /\ ~user.present
    /\ \E try \in LoginTries :
          /\ lastOp' = [Op("login", login(try.email, try.password)) EXCEPT
                           !.email = try.email, !.password = try.password]
          /\ IF login(try.email, try.password)
             THEN lsSession' = TRUE /\ user' = lsUser
             ELSE UNCHANGED <<lsSession, user>>
    /\ ops' = ops + 1
    /\ UNCHANGED <<lsUser, lsRules, lsExpenses, expenses, toast, nextId,
                   created>>
    /\ UNCHANGED runVars

\* App.tsx:133-136, part_003:56-59
Logout ==
    /\ pc = "ready" /\ ops < MaxOps
    /\ user.present
    /\ lsSession' = FALSE
    /\ user' = NoUser
    /\ lastOp' = Op("logout", TRUE)
    /\ ops' = ops + 1
    /\ UNCHANGED <<lsUser, lsRules, lsExpenses, expenses, toast, nextId,
                   created>>
    /\ UNCHANGED runVars

\* part_003:23-28  what setUser stores: the stored record overlaid with the
\* given one
setUser(u) == [u EXCEPT !.present = TRUE]

\* Auth.tsx:262-267, part_003:23-28: a setting is changed (dark mode)
ToggleDarkMode ==
    /\ pc = "ready" /\ ops < MaxOps
    /\ user.present
    /\ LET updated == [user EXCEPT !.darkMode = ~user.darkMode] IN
          lsUser' = setUser(updated) /\ user' = updated
    /\ lastOp' = Op("setUser", TRUE)
    /\ ops' = ops + 1
    /\ UNCHANGED <<lsSession, lsRules, lsExpenses, expenses, toast, nextId,
                   created>>
    /\ UNCHANGED runVars

\* what the add form can hold
FormFillings == { [type |-> "expense", frequency |-> "weekly"],
                  [type |-> "income", frequency |-> "daily"] }
FormDayOffsets == {0, 2}

\* Transactions.tsx:374-376: the date field: today's UTC date by default, or
\* a date the user picks
FormDates == {CivilFromDays(now \div MinutesPerDay - k) : k \in FormDayOffsets}

\* Transactions.tsx:396-405: the transaction of a new form
FormExpense(id, type, date) ==
    [ id          |-> id,
      amount      |-> 25,
      category    |-> IF type = "income" THEN "Salary" ELSE "Food",
      paymentMode |-> "Cash",
      note        |-> "",
      date        |-> date,
      createdAt   |-> now,
      type        |-> type ]

\* a faulty variant: the rule keeps the form's initial frequency
FormRuleMonthly(id, frequency, e) ==
    [ id              |-> id,
      frequency       |-> "monthly",
      nextDueDate     |-> e.date,
      active          |-> TRUE,
      expenseTemplate |-> [ amount |-> e.amount, category |-> e.category,
                            paymentMode |-> e.paymentMode, note |-> e.note,
                            type |-> e.type ],
      lastRun         |-> AbsentDate ]

\* Transactions.tsx:411-422: the rule made from the form's transaction
FormRule(id, frequency, e) ==
    [ id              |-> id,
      frequency       |-> frequency,
      nextDueDate     |-> e.date,
      active          |-> TRUE,
      expenseTemplate |-> [ amount |-> e.amount, category |-> e.category,
                            paymentMode |-> e.paymentMode, note |-> e.note,
                            type |-> e.type ],
      lastRun         |-> AbsentDate ]

\* Transactions.tsx:389-428, App.tsx:138-154: the form for a new transaction
\* is sent
SubmitNew ==
    /\ pc = "ready" /\ ops < MaxOps
    /\ user.present
    /\ \E amountOk \in BOOLEAN, form \in FormFillings, date \in FormDates,
          isRecurring \in BOOLEAN :
          LET type == form.type
              e == FormExpense(nextId, type, date)
              rule == FormRule(nextId + 1, form.frequency, e)
          IN
          /\ lastOp' = [Op("new", amountOk) EXCEPT
                           !.repeat = isRecurring,
                           !.frequency = IF amountOk /\ isRecurring
                                         THEN form.frequency ELSE ""]
          /\ IF ~amountOk
             THEN UNCHANGED <<lsExpenses, expenses, toast, lsRules, created,
                              nextId>>
             ELSE /\ lsExpenses' = addExpense(e)
                  /\ expenses' = <<e>> \o expenses
                  /\ toast' = Toast(IF type = "income" THEN "Income added"
                                    ELSE "Expense added", 0)
                  /\ nextId' = nextId + 2
                  /\ IF isRecurring
                     THEN /\ lsRules' = saveRecurringRule(rule)
                          /\ created' =
                                Append(created,
                                       [rule |-> rule.id,
                                        date |-> rule.nextDueDate,
                                        seen |-> [t \in Tabs |-> tabs[t].pc]])
                     ELSE UNCHANGED <<lsRules, created>>
    /\ ops' = ops + 1
    /\ UNCHANGED <<lsUser, lsSession, user>>
    /\ UNCHANGED runVars

\* App.tsx:173-176, Transactions.tsx:389-428, App.tsx:138-149: a transaction
\* is opened in the form, its amount changed and the form sent; the repeat
\* switch makes no rule here
SubmitEdit ==
    /\ pc = "ready" /\ ops < MaxOps
    /\ user.present
    /\ \E i \in DOMAIN expenses, amountOk \in BOOLEAN, isRecurring \in BOOLEAN :
          LET e == [expenses[i] EXCEPT !.amount = 99] IN
          /\ lastOp' = [Op("edit", amountOk) EXCEPT !.repeat = isRecurring]
          /\ IF ~amountOk
             THEN UNCHANGED <<lsExpenses, expenses, toast>>
             ELSE /\ lsExpenses' = updateExpense(e)
                  /\ expenses' = Replaced(expenses, e)
                  /\ toast' = Toast("Transaction updated", 0)
    /\ ops' = ops + 1
    /\ UNCHANGED <<lsUser, lsSession, user, lsRules, nextId, created>>
    /\ UNCHANGED runVars

\* App.tsx:156-162: delete is pressed on a transaction and the question
\* answered
DeleteExpense ==
    /\ pc = "ready" /\ ops < MaxOps
    /\ user.present
    /\ \E i \in DOMAIN expenses, confirmed \in BOOLEAN :
          /\ lastOp' = Op("delete", confirmed)
          /\ IF confirmed
             THEN /\ lsExpenses' = deleteExpense(expenses[i].id)
                  /\ expenses' = Without(expenses, expenses[i].id)
                  /\ toast' = Toast("Transaction deleted", 0)
             ELSE UNCHANGED <<lsExpenses, expenses, toast>>
    /\ ops' = ops + 1
    /\ UNCHANGED <<lsUser, lsSession, user, lsRules, nextId, created>>
    /\ UNCHANGED runVars

\* App.tsx:164-171, part_003:95-100: clear data is pressed and the question
\* answered
ClearData ==
    /\ pc = "ready" /\ ops < MaxOps
    /\ user.present
    /\ \E confirmed \in BOOLEAN :
          /\ lastOp' = Op("clear", confirmed)
          /\ IF confirmed
             THEN /\ lsExpenses' = NoItem
                  /\ lsRules' = NoItem
                  /\ lsUser' = NoUser
                  /\ lsSession' = FALSE
                  /\ expenses' = <<>>
                  /\ user' = NoUser
                  /\ toast' = Toast("All data cleared", 0)
             ELSE UNCHANGED <<lsExpenses, lsRules, lsUser, lsSession,
                              expenses, user, toast>>
    /\ ops' = ops + 1
    /\ UNCHANGED <<nextId, created>>
    /\ UNCHANGED runVars

AppDay == <<2024, 3, 1>>

\* a fresh install: nothing is stored
InitApp ==
    /\ tz \in TZOffsets
    /\ \E m \in TimesOfDay : now = EpochDay(AppDay) * MinutesPerDay + m - tz
    /\ lsRules = NoItem
    /\ lsExpenses = NoItem
    /\ lsUser = NoUser
    /\ lsSession = FALSE
    /\ Fresh

NextApp ==
    \/ Startup
    \/ MapRule
    \/ LoopStep
    \/ LoopExit
    \/ ProcessReturn
    \/ StartupStore
    \/ StoreFails
    \/ Reload
    \/ Signup
    \/ Login
    \/ Logout
    \/ ToggleDarkMode
    \/ SubmitNew
    \/ SubmitEdit
    \/ DeleteExpense
    \/ ClearData

SpecApp == InitApp /\ [][NextApp]_vars

(***************************************************************************)
(* Two tabs load the page on the same localStorage.  Each runs the startup *)
(* effect on its own; a step of a tab is one access to localStorage with   *)
(* the computation that follows it.                                        *)
(***************************************************************************)

\* App.tsx:89-118  the instances the map pushes for rules i.., each with the
\* id of its rule, the uuids taken from id on
RECURSIVE Pushed(_, _, _, _)
Pushed(rs, i, id, t) ==
    IF i > Len(rs) THEN <<>>
    ELSE LET cs == Cursors(rs[i], NewDate(rs[i].nextDueDate), t, 0)
             mine == [k \in DOMAIN cs |->
                        [rule |-> rs[i].id,
                         e |-> MakeInstance(rs[i], cs[k], id + k - 1, now)]]
         IN mine \o Pushed(rs, i + 1, id + Len(cs), t)

\* App.tsx:89-118  the rules the map returns
Updated(rs, t) ==
    [i \in DOMAIN rs |->
        LET d == NewDate(rs[i].nextDueDate) IN
        MappedRule(rs[i], CursorAfter(rs[i], d, t, 0), t,
                   Cursors(rs[i], d, t, 0))]

\* App.tsx:41-42: the tab loads the transactions
TabLoad(t) ==
    /\ tabs[t].pc = "boot"
    /\ tabs' = [tabs EXCEPT ![t].loaded = getExpenses, ![t].pc = "rules"]
    /\ UNCHANGED <<tz, now, lsRules, lsExpenses, expenses, toast, pc,
                   loadedExpenses, rules, today, newExpenses, updatedRules,
                   hasUpdates, idx, nextDate, ruleUpdates, processed, nextId,
                   runs, prev, made, effects, lsUser, lsSession, user, ops,
                   created, lastOp>>

\* App.tsx:83-118: the tab reads the rules and maps over them
TabMap(t) ==
    /\ tabs[t].pc = "rules"
    /\ LET rs == getRecurringRules
           T == [valid |-> TRUE, t |-> now]
           pushed == Pushed(rs, 1, nextId, T)
       IN
       /\ tabs' = [tabs EXCEPT
                     ![t].rules = rs,
                     ![t].fresh = [k \in DOMAIN pushed |-> pushed[k].e],
                     ![t].updated = Updated(rs, T),
                     ![t].has = Len(pushed) > 0,
                     ![t].pc = "save"]
       /\ made' = made \o [k \in DOMAIN pushed |->
                              [id |-> pushed[k].e.id, rule |-> pushed[k].rule,
                               date |-> pushed[k].e.date]]
       /\ nextId' = nextId + Len(pushed)
    /\ UNCHANGED <<tz, now, lsRules, lsExpenses, expenses, toast, pc,
                   loadedExpenses, rules, today, newExpenses, updatedRules,
                   hasUpdates, idx, nextDate, ruleUpdates, processed, runs,
                   prev, effects, lsUser, lsSession, user, ops, created, lastOp>>

\* App.tsx:120-125: the tab saves the rules and shows its toast
TabSave(t) ==
    /\ tabs[t].pc = "save"
    /\ lsRules' = SavedRules(tabs[t].has, tabs[t].updated, lsRules)
    /\ tabs' = [tabs EXCEPT
                  ![t].toast = Notification(tabs[t].has, tabs[t].fresh,
                                            tabs[t].toast),
                  ![t].pc = "store"]
    /\ UNCHANGED <<tz, now, lsExpenses, expenses, toast, pc, loadedExpenses,
                   rules, today, newExpenses, updatedRules, hasUpdates, idx,
                   nextDate, ruleUpdates, processed, nextId, runs, prev, made,
                   effects, lsUser, lsSession, user, ops, created, lastOp>>

\* App.tsx:46-51: the tab stores what processRecurringExpenses returned
TabStore(t) ==
    /\ tabs[t].pc = "store"
    /\ LET p == Returned(tabs[t].has, tabs[t].fresh, tabs[t].loaded) IN
          lsExpenses' = IF StartupWrites(p, tabs[t].loaded) THEN Item(p)
                        ELSE lsExpenses
    /\ tabs' = [tabs EXCEPT ![t].pc = "ready"]
    /\ UNCHANGED <<tz, now, lsRules, expenses, toast, pc, loadedExpenses,
                   rules, today, newExpenses, updatedRules, hasUpdates, idx,
                   nextDate, ruleUpdates, processed, nextId, runs, prev, made,
                   effects, lsUser, lsSession, user, ops, created, lastOp>>

\* the stored rules the tabs find: every frequency is one of the four
TabRuleLists(day) ==
    {l \in RuleLists(day) :
        \A i \in DOMAIN l : l[i].frequency \in Frequencies}

InitTabs ==
    /\ tz \in TZOffsets
    /\ \E m \in TimesOfDay :
          /\ now = EpochDay(AppDay) * MinutesPerDay + m - tz
          /\ \E l \in TabRuleLists(EpochDay(AppDay)) :
                lsRules \in IF l = <<>> THEN {NoItem} ELSE {Item(l)}
    /\ lsExpenses \in {NoItem, Item(<<OldExpense>>)}
    /\ lsUser = NoUser
    /\ lsSession = FALSE
    /\ expenses = <<>>
    /\ toast = NoToast
    /\ pc = "closed"
    /\ loadedExpenses = <<>>
    /\ rules = <<>>
    /\ today = InvalidDate
    /\ newExpenses = <<>>
    /\ updatedRules = <<>>
    /\ hasUpdates = FALSE
    /\ idx = 1
    /\ nextDate = InvalidDate
    /\ ruleUpdates = <<>>
    /\ processed = <<>>
    /\ nextId = 1
    /\ runs = 1
    /\ prev = NoRun
    /\ made = <<>>
    /\ effects = <<>>
    /\ user = NoUser
    /\ ops = 0
    /\ created = <<>>
    /\ lastOp = NoOp
    /\ tabs = [t \in Tabs |-> [TabClosed EXCEPT !.pc = "boot"]]

NextTabs ==
    \/ \E t \in Tabs : TabLoad(t)
    \/ \E t \in Tabs : TabMap(t)
    \/ \E t \in Tabs : TabSave(t)
    \/ \E t \in Tabs : TabStore(t)

SpecTabs == InitTabs /\ [][NextTabs]_vars

(***************************************************************************)
(* A page that is open and signed in, and a tab that loads the page on the *)
(* same localStorage while the user adds a transaction in the open page.   *)
(* The open page finished its own startup effect on an earlier day, so the *)
(* stored rules may be due again and the locals of its effect are gone.    *)
(***************************************************************************)
\* the stored rules the tab finds: none or one
SharedRuleLists(day) == {l \in TabRuleLists(day) : Len(l) <= 1}

InitShared ==
    /\ tz \in TZOffsets
    /\ \E m \in TimesOfDay :
          /\ now = EpochDay(AppDay) * MinutesPerDay + m - tz
          /\ \E l \in SharedRuleLists(EpochDay(AppDay)) :
                lsRules \in IF l = <<>> THEN {NoItem} ELSE {Item(l)}
    /\ lsExpenses \in {NoItem, Item(<<OldExpense>>)}
    /\ lsUser = Account
    /\ lsSession = TRUE
    /\ expenses = getExpenses
    /\ toast = NoToast
    /\ pc = "ready"
    /\ loadedExpenses = <<>>
    /\ rules = <<>>
    /\ today = InvalidDate
    /\ newExpenses = <<>>
    /\ updatedRules = <<>>
    /\ hasUpdates = FALSE
    /\ idx = 1
    /\ nextDate = InvalidDate
    /\ ruleUpdates = <<>>
    /\ processed = <<>>
    /\ nextId = 2 * MaxRules + 1
    /\ runs = 1
    /\ prev = NoRun
    /\ made = <<>>
    /\ effects = <<>>
    /\ user = Account
    /\ ops = MaxOps - 1
    /\ created = <<>>
    /\ lastOp = NoOp
    /\ tabs = [t \in Tabs |-> IF t = "left"
                              THEN [TabClosed EXCEPT !.pc = "boot"]
                              ELSE TabClosed]

NextShared ==
    \/ \E t \in Tabs : TabLoad(t)
    \/ \E t \in Tabs : TabMap(t)
    \/ \E t \in Tabs : TabSave(t)
    \/ \E t \in Tabs : TabStore(t)
    \/ SubmitNew

SpecShared == InitShared /\ [][NextShared]_vars

(***************************************************************************)
(* Properties.                                                             *)
(*                                                                         *)
(* Mapped: the map callback has just returned for rule In; Gen holds the   *)
(* instances generated for it in this run and Out is the rule returned.    *)
(***************************************************************************)
Mapped == pc = "map" /\ idx > 1
In == rules[idx - 1]
Out == updatedRules[idx - 1]
Gen == ruleUpdates
TDay == LocalDay(today.t)          \* day number of T's date
TDate == CivilFromDays(TDay)       \* T's date

\* the cadence the specification states, in days
CadenceDays(f) ==
    CASE f = "daily" -> 1 [] f = "weekly" -> 7 [] f = "monthly" -> 30
      [] f = "yearly" -> 365

WellFormed(r) == IsDateString(r.nextDueDate) /\ r.frequency \in Frequencies

\* number of instances of Gen dated s
CountDated(s) == Cardinality({i \in DOMAIN Gen : Gen[i].date = s})

RunEnded == pc \in {"store", "ready"}

\* C1: a second run at the same reference time, on the rules the first run
\* left, generates nothing and leaves the rules and the transactions as they
\* were.
C1_Idempotent ==
    (prev.valid /\ prev.now = now /\ RunEnded) =>
        /\ newExpenses = <<>>
        /\ updatedRules = rules
        /\ lsRules = prev.lsRules
        /\ pc = "ready" => lsExpenses = prev.lsExpenses

\* C2: an active rule with a parseable cursor d0 and step s gets exactly one
\* instance for each date d0 + k*s up to and including T's date, and no other.
C2_AllDueOccurrences ==
    (Mapped /\ In.active /\ WellFormed(In)) =>
        LET d0 == EpochDay(In.nextDueDate)
            s == CadenceDays(In.frequency)
            n == IF d0 > TDay THEN 0 ELSE ((TDay - d0) \div s) + 1
        IN /\ Len(Gen) = n
           /\ \A i \in 1..Len(Gen) :
                 Gen[i].date = CivilFromDays(d0 + (i - 1) * s)

C3_Case ==
    /\ Mapped
    /\ In.active
    /\ In.frequency = "daily"
    /\ IsDateString(In.nextDueDate)
    /\ EpochDay(In.nextDueDate) = TDay - 5

C4_Case ==
    /\ Mapped
    /\ In.active
    /\ In.frequency = "daily"
    /\ In.nextDueDate = <<2024, 6, 1>>
    /\ TDate = <<2024, 6, 3>>

C5_InactiveFrozen ==
    /\ (pc = "loop" /\ ~rules[idx].active) => ruleUpdates = <<>>
    /\ (Mapped /\ ~In.active) => (Gen = <<>> /\ Out = In)
    /\ RunEnded =>
          \A j \in DOMAIN rules :
              ~rules[j].active =>
                  /\ updatedRules[j] = rules[j]
                  /\ getRecurringRules[j] = rules[j]

C5_Witness ==
    /\ RunEnded
    /\ hasUpdates
    /\ \E j \in DOMAIN rules :
          /\ ~rules[j].active
          /\ rules[j].frequency = "daily"
          /\ IsDateString(rules[j].nextDueDate)
          /\ EpochDay(rules[j].nextDueDate) = TDay - 30
          /\ getRecurringRules[j] = rules[j]

\* C6: a rule whose cursor is strictly after T's date gets no instance and is
\* returned unchanged; when no rule generated anything, neither the rule
\* store nor the transaction store is written.
C6_ZeroDue ==
    /\ (Mapped /\ IsDateString(In.nextDueDate)
               /\ EpochDay(In.nextDueDate) > TDay) =>
          (Gen = <<>> /\ Out = In)
    /\ (RunEnded /\ newExpenses = <<>>) =>
          /\ ~hasUpdates
          /\ getRecurringRules = rules
          /\ prev.valid => lsRules = prev.lsRules
          /\ pc = "ready" =>
                /\ getExpenses = loadedExpenses
                /\ expenses = loadedExpenses
                /\ prev.valid => lsExpenses = prev.lsExpenses

SameButIdentity(a, b) ==
    [a EXCEPT !.id = 0, !.date = AbsentDate, !.createdAt = 0] =
    [b EXCEPT !.id = 0, !.date = AbsentDate, !.createdAt = 0]

\* C7 as stated: every instance's category, amount, payment mode, note and
\* type equal the template's, an absent type included.
C7_VerbatimTemplate ==
    pc = "loop" =>
        \A i \in DOMAIN ruleUpdates :
            LET e == ruleUpdates[i]
                tpl == rules[idx].expenseTemplate
            IN /\ e.category = tpl.category
               /\ e.amount = tpl.amount
               /\ e.paymentMode = tpl.paymentMode
               /\ e.note = tpl.note
               /\ e.type = tpl.type

\* C7 amended: every instance's category, amount, payment mode and note equal
\* the template's, its type is the template's type, or 'expense' when the
\* template has none; instances of one rule differ only in id, date and
\* createdAt.
C7_TemplateFidelity ==
    pc = "loop" =>
        /\ \A i \in DOMAIN ruleUpdates :
              LET e == ruleUpdates[i]
                  tpl == rules[idx].expenseTemplate
              IN /\ e.category = tpl.category
                 /\ e.amount = tpl.amount
                 /\ e.paymentMode = tpl.paymentMode
                 /\ e.note = tpl.note
                 /\ e.type = IF tpl.type = Absent THEN "expense" ELSE tpl.type
        /\ \A i, j \in DOMAIN ruleUpdates :
              SameButIdentity(ruleUpdates[i], ruleUpdates[j])

C7_Witness ==
    /\ pc = "loop"
    /\ Len(ruleUpdates) >= 2
    /\ rules[idx].expenseTemplate.type = Absent
    /\ ruleUpdates[1].type = "expense"
    /\ ruleUpdates[1].id # ruleUpdates[2].id
    /\ ruleUpdates[1].date # ruleUpdates[2].date

\* C8: monthly from 2024-01-31 at T = 2024-03-01 gives exactly the instances
\* 2024-01-31 and 2024-03-01, and none dated 2024-02-29.
C8_MonthlyDrift ==
    (/\ Mapped
     /\ In.active
     /\ In.frequency = "monthly"
     /\ In.nextDueDate = <<2024, 1, 31>>
     /\ TDate = <<2024, 3, 1>>) =>
        /\ Len(Gen) = 2
        /\ Gen[1].date = <<2024, 1, 31>>
        /\ Gen[2].date = <<2024, 3, 1>>
        /\ CountDated(<<2024, 2, 29>>) = 0

\* C9: each loop step for a daily, weekly, monthly or yearly rule generates
\* one instance and moves the cursor by exactly 1, 7, 30 or 365 days, whatever
\* the month lengths and leap days it crosses.
C9_CursorAdvance ==
    [][ (pc = "loop" /\ pc' = "loop" /\ rules[idx].frequency \in Frequencies) =>
           /\ Len(ruleUpdates') = Len(ruleUpdates) + 1
           /\ nextDate'.t - nextDate.t =
                 CadenceDays(rules[idx].frequency) * MinutesPerDay
           /\ EpochDay(Format(nextDate')) =
                 EpochDay(Format(nextDate)) + CadenceDays(rules[idx].frequency)
      ]_vars

\* a monthly cursor that has stepped over February 2024, a yearly one over
\* 29 February 2024
C9_Witness ==
    /\ pc = "loop"
    /\ Len(ruleUpdates) = 1
    /\ \/ /\ rules[idx].frequency = "monthly"
          /\ ruleUpdates[1].date[2] = 1
          /\ Format(nextDate)[2] = 3
       \/ /\ rules[idx].frequency = "yearly"
          /\ EpochDay(ruleUpdates[1].date) < EpochDay(<<2024, 2, 29>>)
          /\ Format(nextDate)[1] = 2025

\* C10: for an active due rule with an unknown frequency tag no instance is
\* generated and the loop does not keep running on a cursor that stands still.
C10_UnknownFrequencySkipped ==
    (pc = "loop" /\ rules[idx].frequency \notin Frequencies) =>
        /\ ruleUpdates = <<>>
        /\ ~(/\ LoopRuns(rules[idx], nextDate, today)
             /\ AdvanceCursor(nextDate, rules[idx].frequency) = nextDate)

\* the stored batch holds a rule whose nextDueDate does not parse
HasBadDate == \E j \in DOMAIN rules : ~IsDateString(rules[j].nextDueDate)

GenDates == [i \in DOMAIN Gen |-> Gen[i].date]

\* C11: a rule whose nextDueDate does not parse generates nothing and is
\* returned as it was, and beside it every other rule of the batch gets
\* exactly the instances and the returned rule it gets when taken alone.
C11_BadDateIsolated ==
    (Mapped /\ HasBadDate) =>
        IF ~IsDateString(In.nextDueDate)
        THEN Gen = <<>> /\ Out = In
        ELSE LET d == NewDate(In.nextDueDate) IN
             /\ GenDates = Occurrences(In, d, today, 0)
             /\ Out = MappedRule(In, CursorAfter(In, d, today, 0), today, Gen)

\* a run has ended on an active daily rule with an unparseable date, stored
\* before a daily rule two days behind: the first is returned as it was, the
\* second has generated its instances
C11_Witness ==
    /\ RunEnded
    /\ Len(rules) = 2
    /\ ~IsDateString(rules[1].nextDueDate)
    /\ rules[1].active
    /\ rules[1].frequency = "daily"
    /\ updatedRules[1] = rules[1]
    /\ rules[2].frequency = "daily"
    /\ Len(newExpenses) >= 3
    /\ \A i \in DOMAIN newExpenses : newExpenses[i].amount = 5000
    /\ updatedRules[2] # rules[2]

\* C13 as stated: no step taken inside processRecurringExpenses writes the
\* rule store or the transaction store or shows the toast.
C13_EngineWritesNothing ==
    [][ (pc \in {"map", "loop"}) =>
           UNCHANGED <<lsRules, lsExpenses, toast>>
      ]_vars

\* C13, amended: the map over the rules writes no store and shows no toast;
\* processRecurringExpenses itself then saves the rules and shows the toast,
\* both exactly when an instance was generated, and never writes the
\* transaction store; the startup effect that called it writes the
\* transaction store and nothing else.
C13_WhoWritesWhat ==
    [][ /\ (pc \in {"map", "loop"} /\ pc' \in {"map", "loop"}) =>
              UNCHANGED <<lsRules, lsExpenses, toast, expenses>>
        /\ (pc = "map" /\ pc' = "store") =>
              /\ UNCHANGED <<lsExpenses, expenses>>
              /\ IF Len(newExpenses) > 0
                 THEN lsRules' = Item(updatedRules) /\ toast'.shown
                 ELSE UNCHANGED <<lsRules, toast>>
        /\ (pc = "store" /\ pc' = "ready") => UNCHANGED <<lsRules, toast>>
      ]_vars

\* processRecurringExpenses has returned after generating instances: the
\* rules are saved and the toast is up, the transactions are not stored yet
C13_Witness ==
    /\ pc = "store"
    /\ Len(newExpenses) > 0
    /\ lsRules = Item(updatedRules)
    /\ updatedRules # rules
    /\ toast.shown
    /\ getExpenses = loadedExpenses
    /\ effects = <<"rules", "toast">>

\* C14: the toast of a page load is shown if and only if the run generated
\* an instance, and the count it shows is the number of transactions the run
\* added over all rules.
C14_NotificationIffGenerated ==
    /\ pc \in {"map", "loop"} => ~toast.shown
    /\ RunEnded =>
          /\ toast.shown <=> Len(newExpenses) > 0
          /\ toast.shown =>
                /\ toast.count = Len(newExpenses)
                /\ toast.count = Len(processed) - Len(loadedExpenses)
          /\ (pc = "ready" /\ toast.shown) =>
                toast.count = Len(getExpenses) - Len(loadedExpenses)

\* the second page load, over two rules that both generated, has ended with
\* the toast up
C14_Witness ==
    /\ pc = "ready"
    /\ Len(rules) = 2
    /\ updatedRules[1] # rules[1]
    /\ updatedRules[2] # rules[2]
    /\ toast.count >= 4
    /\ prev.valid
    /\ prev.lsRules # lsRules

\* C15: with no rule stored, the run generates nothing, returns the
\* transactions it was given, shows no toast and writes nothing to storage.
C15_EmptyRuleSet ==
    [][ (rules = <<>> /\ pc \in {"map", "loop", "store"}) =>
           /\ UNCHANGED <<lsRules, lsExpenses, toast>>
           /\ newExpenses' = <<>>
           /\ pc' \in {"store", "ready"}
           /\ processed' = loadedExpenses
           /\ expenses' = loadedExpenses
           /\ effects' = <<>>
      ]_vars

\* a page load that found an empty rule list and one transaction is ready
C15_Witness ==
    /\ pc = "ready"
    /\ rules = <<>>
    /\ lsRules = Item(<<>>)
    /\ expenses = <<OldExpense>>
    /\ lsExpenses = Item(<<OldExpense>>)
    /\ ~toast.shown

\* ids of the transactions in the stored collection
StoredIds == {getExpenses[i].id : i \in DOMAIN getExpenses}

\* a transaction for occurrence (rule, date) is in the stored collection
OccurrenceStored(rule, date) ==
    \E k \in DOMAIN made :
        made[k].rule = rule /\ made[k].date = date /\ made[k].id \in StoredIds

\* C18: in every state, between the storage writes of a run and after a write
\* that failed included, a stored rule's nextDueDate lies past the date of a
\* generated occurrence of that rule only if a transaction for that
\* occurrence is in the stored collection.  (Stated for zones at or east of
\* UTC, where a generated occurrence is dated as its cursor was stored.)
C18_NoPartialCommit ==
    \A k \in DOMAIN made : \A j \in DOMAIN getRecurringRules :
        LET r == getRecurringRules[j] IN
        (/\ tz >= 0
         /\ r.id = made[k].rule
         /\ IsDateString(r.nextDueDate)
         /\ EpochDay(r.nextDueDate) > EpochDay(made[k].date)) =>
            OccurrenceStored(made[k].rule, made[k].date)

\* C19: over page loads with the clock later, equal or earlier than before,
\* no occurrence (rule, date) is generated twice, no rule's nextDueDate moves
\* backward, and a run whose date is before a rule's nextDueDate returns the
\* rule as it was.  (Stated for rules with one of the four frequencies.)
C19_IdempotentAcrossRuns ==
    /\ \A k1, k2 \in DOMAIN made :
          (/\ k1 # k2
           /\ made[k1].rule = made[k2].rule
           /\ \E j \in DOMAIN getRecurringRules :
                 /\ getRecurringRules[j].id = made[k1].rule
                 /\ WellFormed(getRecurringRules[j])) =>
              made[k1].date # made[k2].date
    /\ Mapped /\ WellFormed(In) =>
          /\ EpochDay(Out.nextDueDate) >= EpochDay(In.nextDueDate)
          /\ TDay < EpochDay(In.nextDueDate) => (Gen = <<>> /\ Out = In)
    /\ prev.valid =>
          \A i \in DOMAIN getRecurringRules :
              (i \in DOMAIN prev.lsRules.items
                 /\ WellFormed(getRecurringRules[i])) =>
                  EpochDay(getRecurringRules[i].nextDueDate) >=
                      EpochDay(prev.lsRules.items[i].nextDueDate)

\* the first date of the cadence d0, d0 + s, d0 + 2s, ... strictly after day t
FirstAfter(d0, s, t) == IF d0 > t THEN d0 ELSE d0 + ((t - d0) \div s + 1) * s

\* C20: a rule for which the run generated an instance is returned with
\* nextDueDate the first date of its cadence strictly after T's date and with
\* lastRun T's date; a rule for which it generated none is returned with both
\* as they were.
C20_CursorAndLastRun ==
    (Mapped /\ WellFormed(In)) =>
        IF Gen # <<>>
        THEN /\ Out.nextDueDate =
                  CivilFromDays(FirstAfter(EpochDay(In.nextDueDate),
                                           CadenceDays(In.frequency), TDay))
             /\ Out.lastRun = TDate
        ELSE /\ Out.nextDueDate = In.nextDueDate
             /\ Out.lastRun = In.lastRun

\* number of instances generated for rule id and dated date
Instances(id, date) ==
    Cardinality({k \in DOMAIN made : made[k].rule = id /\ made[k].date = date})

\* no run is in progress
Quiet == pc \in {"boot", "ready"}

\* C12: whenever no run is in progress, for every stored rule the form
\* created, no instance of the rule dated its nextDueDate has been generated,
\* and every date of its cadence from its creation date on that lies strictly
\* before its nextDueDate has exactly one instance.
C12_CursorInvariant ==
    Quiet =>
      \A j \in DOMAIN getRecurringRules : \A c \in DOMAIN created :
        LET r == getRecurringRules[j] IN
        created[c].rule = r.id =>
          /\ Instances(r.id, r.nextDueDate) = 0
          /\ \A n \in 0..Len(made) :
                LET day == EpochDay(created[c].date)
                             + n * CadenceDays(r.frequency) IN
                day < EpochDay(r.nextDueDate) =>
                    Instances(r.id, CivilFromDays(day)) = 1

\* C16 as stated: whatever the operation, every rule in the rule store before
\* it is in the rule store after it.
C16_RulesNeverDeleted ==
    [][ \A j \in DOMAIN getRecurringRules :
           \E j2 \in DOMAIN getRecurringRules' :
               getRecurringRules'[j2].id = getRecurringRules[j].id
      ]_vars

\* C16, amended: a confirmed clear data, the one operation that removes the
\* stored user record, removes the rule store with the transactions and the
\* session; every other operation keeps every stored rule, with its id,
\* frequency, template and active flag as they were.
C16_RulesKeptExceptClearData ==
    [][ IF lsUser.present /\ ~lsUser'.present
        THEN lsRules' = NoItem /\ lsExpenses' = NoItem /\ ~lsSession'
        ELSE \A j \in DOMAIN getRecurringRules :
               \E j2 \in DOMAIN getRecurringRules' :
                   /\ getRecurringRules'[j2].id = getRecurringRules[j].id
                   /\ getRecurringRules'[j2].frequency =
                         getRecurringRules[j].frequency
                   /\ getRecurringRules'[j2].expenseTemplate =
                         getRecurringRules[j].expenseTemplate
                   /\ getRecurringRules'[j2].active =
                         getRecurringRules[j].active
      ]_vars

\* a rule was created and materialized, then clear data was confirmed: the
\* rule store is gone
C16_Witness ==
    /\ created # <<>>
    /\ made # <<>>
    /\ lsRules = NoItem
    /\ toast.message = "All data cleared"
    /\ ~user.present

\* both tabs have finished their startup effect
TabsDone == \A t \in Tabs : tabs[t].pc = "ready"

\* the tabs raced: each read the rule store before the other saved it, and
\* the rules they read were due
Raced ==
    /\ TabsDone
    /\ tabs["left"].rules = tabs["right"].rules
    /\ tabs["left"].has

\* some occurrence (rule, date) has two transactions in the stored collection
StoredTwice ==
    \E k1, k2 \in DOMAIN made :
        /\ k1 # k2
        /\ made[k1].rule = made[k2].rule
        /\ made[k1].date = made[k2].date
        /\ made[k1].id \in StoredIds
        /\ made[k2].id \in StoredIds

\* C17 as stated: after two tabs have raced through the startup
\* materialization, the stored transaction collection holds some occurrence
\* (same rule, same date) twice.
C17_RaceStoresTwice == Raced => StoredTwice

\* C17, amended: after two tabs have raced through the startup
\* materialization at the same time of day, each has generated every due
\* occurrence once, but the stored collection holds no occurrence twice: it
\* is what the tab that stored last generated, before what that tab had
\* loaded, and the stored rules are the updated rules of either.
C17_RaceStoresOnce ==
    Raced =>
        /\ ~StoredTwice
        /\ \E t \in Tabs : getExpenses = tabs[t].fresh \o tabs[t].loaded
        /\ \A t \in Tabs :
              /\ tabs[t].has
              /\ tabs[t].loaded = tabs["left"].loaded
              /\ getRecurringRules = tabs[t].updated
        /\ Len(made) = 2 * (Len(getExpenses) - Len(tabs["left"].loaded))

\* a race over a backlog of at least two occurrences after which the stored
\* collection is the one of the left tab
C17_Witness ==
    /\ Raced
    /\ Len(tabs["right"].fresh) >= 2
    /\ getExpenses = tabs["left"].fresh \o tabs["left"].loaded
    /\ tabs["left"].loaded # <<>>


\* the rule an instance of this run was generated for, and the place of that
\* rule in the rules the run read
RuleOf(e) == made[CHOOSE k \in DOMAIN made : made[k].id = e.id].rule
Pos(r) == CHOOSE p \in DOMAIN rules : rules[p].id = r

\* C21: when a run has ended, the collection it returns is the generated
\* instances followed by the transactions that were loaded, these unchanged
\* and in their order; the instances stand in the order the rules were
\* iterated, and within a rule from the oldest occurrence to the newest; and
\* once the startup effect is over, that collection is the one in memory and
\* the one in the store.
C21_OutputOrdering ==
    RunEnded =>
        /\ processed = newExpenses \o loadedExpenses
        /\ hasUpdates <=> newExpenses # <<>>
        /\ \A i, j \in DOMAIN newExpenses :
              i < j =>
                 \/ Pos(RuleOf(newExpenses[i])) < Pos(RuleOf(newExpenses[j]))
                 \/ /\ RuleOf(newExpenses[i]) = RuleOf(newExpenses[j])
                    /\ EpochDay(newExpenses[i].date)
                          < EpochDay(newExpenses[j].date)
        /\ pc = "ready" => expenses = processed /\ getExpenses = processed

\* a finished run that put the instances of two rules, two of them of the same
\* rule, before a transaction that was stored
C21_Witness ==
    /\ pc = "ready"
    /\ loadedExpenses = <<OldExpense>>
    /\ Len(newExpenses) >= 3
    /\ RuleOf(newExpenses[1]) = RuleOf(newExpenses[2])
    /\ RuleOf(newExpenses[2]) # RuleOf(newExpenses[3])
    /\ getExpenses[Len(getExpenses)] = OldExpense


\* the page load has had the effect e
InLog(e) == \E k \in DOMAIN effects : effects[k] = e

\* C22: in one startup run the new transactions are written to the
\* transaction store before the updated rules are saved to the rule store,
\* and the count is reported after both writes: at no moment are the rules
\* saved while the transactions are not yet written, nor the count shown
\* while a write is outstanding, and a run that generated ends with the
\* effects transactions, rules, count in this order.
C22_TransactionsBeforeCursors ==
    /\ InLog("rules") => InLog("expenses")
    /\ InLog("toast") => InLog("expenses") /\ InLog("rules")
    /\ (pc = "ready" /\ hasUpdates) => effects = <<"expenses", "rules", "toast">>

\* C24: for every local offset from UTC, parsing the stored nextDueDate of a
\* rule and formatting it back gives the same calendar date, and the first
\* instance generated for the rule is dated exactly the stored nextDueDate.
C24_DatesCarryNoTimezone ==
    (Mapped /\ IsDateString(In.nextDueDate)) =>
        /\ Format(NewDate(In.nextDueDate)) = In.nextDueDate
        /\ Gen # <<>> => Gen[1].date = In.nextDueDate


\* the run generated an instance for the rule with this id
GeneratedFor(id) ==
    \E j \in DOMAIN newExpenses : RuleOf(newExpenses[j]) = id

\* what a finished materialization returns against the rules it read: as many
\* rules, in the same order, each with its id, frequency, active flag and
\* template, and with its nextDueDate unless the run generated for it
RunFrame ==
    RunEnded =>
        /\ Len(updatedRules) = Len(rules)
        /\ \A i \in DOMAIN rules :
              /\ updatedRules[i].id = rules[i].id
              /\ updatedRules[i].frequency = rules[i].frequency
              /\ updatedRules[i].active = rules[i].active
              /\ updatedRules[i].expenseTemplate = rules[i].expenseTemplate
              /\ updatedRules[i].nextDueDate # rules[i].nextDueDate
                    => GeneratedFor(rules[i].id)

\* C23: the materialization returns the rules it read, as many and in the
\* same order, with id, frequency, active and template unchanged; and no step
\* of the application changes the nextDueDate of a stored rule except the
\* save of a run that generated at least one instance for that rule.
C23_RulesFrame ==
    [][ /\ RunFrame'
        /\ \A i \in DOMAIN getRecurringRules, j \in DOMAIN getRecurringRules' :
              LET r == getRecurringRules[i]
                  s == getRecurringRules'[j]
              IN (r.id = s.id /\ r.nextDueDate # s.nextDueDate) =>
                    /\ pc = "map" /\ pc' = "store"
                    /\ GeneratedFor(r.id)
                    /\ i = j
                    /\ s = updatedRules[i] ]_vars

\* a finished run over two rules the form created that moved the nextDueDate
\* of the weekly one in the store
C23_Witness ==
    /\ pc = "ready"
    /\ Len(rules) = 2
    /\ getRecurringRules = updatedRules
    /\ \E i \in DOMAIN rules :
          /\ rules[i].frequency = "weekly"
          /\ updatedRules[i].nextDueDate # rules[i].nextDueDate
          /\ GeneratedFor(rules[i].id)


\* C25: sending the transaction form adds a rule to the rule store exactly
\* when the amount is valid, the repeat switch is on and the form is not
\* editing an existing transaction; the rule is put after the stored rules,
\* which stay as they are; it is active, has the frequency chosen in the
\* form, and its nextDueDate and template are the date and the amount,
\* category, payment mode, note and type of the transaction just saved.
C25_RuleCreation ==
    [][ (ops' = ops + 1 /\ lastOp'.kind \in {"new", "edit"}) =>
           IF lastOp'.ok /\ lastOp'.repeat /\ lastOp'.kind = "new"
           THEN LET old == getRecurringRules
                    new == getRecurringRules'
                    rule == new[Len(new)]
                    e == getExpenses'[1]
                IN /\ Len(new) = Len(old) + 1
                   /\ SubSeq(new, 1, Len(old)) = old
                   /\ \A i \in DOMAIN old : old[i].id # rule.id
                   /\ rule.active
                   /\ rule.frequency = lastOp'.frequency
                   /\ rule.nextDueDate = e.date
                   /\ rule.expenseTemplate =
                         [amount |-> e.amount, category |-> e.category,
                          paymentMode |-> e.paymentMode, note |-> e.note,
                          type |-> e.type]
                   /\ Len(getExpenses') = Len(getExpenses) + 1
           ELSE lsRules' = lsRules ]_vars

\* a second rule has just been created by the form, after one that is stored
\* with another frequency
C25_Witness ==
    /\ lastOp.kind = "new" /\ lastOp.ok /\ lastOp.repeat
    /\ Len(getRecurringRules) = 2
    /\ getRecurringRules[2].frequency = lastOp.frequency
    /\ getRecurringRules[1].frequency # lastOp.frequency
    /\ getRecurringRules[2].nextDueDate = getExpenses[1].date

\* the form was sent for an existing transaction with the repeat switch on
C25_EditCase == lastOp.kind = "edit" /\ lastOp.ok /\ lastOp.repeat


\* C26: sending the sign-up form while a user record is stored returns false
\* and leaves the stored user record, the session flag and the signed-in user
\* as they were; while no user record is stored it returns true, stores the
\* account that was entered and sets the session flag.
C26_SignupNeverOverwrites ==
    [][ (ops' = ops + 1 /\ lastOp'.kind = "signup") =>
           IF lsUser.present
           THEN /\ ~lastOp'.ok
                /\ lsUser' = lsUser
                /\ lsSession' = lsSession
                /\ user' = user
           ELSE /\ lastOp'.ok
                /\ lsUser'.present
                /\ lsUser'.email = lastOp'.email
                /\ lsUser'.password = lastOp'.password
                /\ lsSession'
                /\ user' = lsUser' ]_vars

\* Ravi has just tried to sign up on the device where Asha's account is
\* stored and signed out
C26_Witness ==
    /\ lastOp.kind = "signup" /\ ~lastOp.ok
    /\ lastOp.email = Rival.email
    /\ lsUser.present /\ lsUser.email = Account.email
    /\ ~lsSession
    /\ ~user.present


\* C29: starting from empty storage, through every sequence of sign-up,
\* login, logout, settings changes and clear-data, the session flag is set
\* only while a user record is stored; a login sets the session flag only
\* when the email and the password entered both equal the stored ones, and a
\* login that fails changes nothing; a logout removes the session flag and
\* leaves the user record, the transactions and the rules as they are.
C29_SessionImpliesAccount ==
    [][ /\ lsSession' => lsUser'.present
        /\ (ops' = ops + 1 /\ lastOp'.kind = "login") =>
              IF /\ lsUser.present
                 /\ lastOp'.email = lsUser.email
                 /\ lastOp'.password = lsUser.password
              THEN /\ lastOp'.ok /\ lsSession' /\ user' = lsUser
                   /\ UNCHANGED <<lsUser, lsExpenses, lsRules>>
              ELSE /\ ~lastOp'.ok
                   /\ UNCHANGED <<lsUser, lsSession, user, lsExpenses,
                                  lsRules, expenses>>
        /\ (ops' = ops + 1 /\ lastOp'.kind = "logout") =>
              /\ ~lsSession'
              /\ UNCHANGED <<lsUser, lsExpenses, lsRules>> ]_vars

\* after a logout, a login with the stored password but another email has
\* just been refused
C29_Witness ==
    /\ lastOp.kind = "login" /\ ~lastOp.ok
    /\ lsUser.present
    /\ lastOp.password = lsUser.password
    /\ lastOp.email # lsUser.email
    /\ ~lsSession

\* a settings change, then a logout
C29_LogoutCase ==
    /\ lastOp.kind = "logout"
    /\ lsUser.present /\ lsUser.darkMode
    /\ ~lsSession


\* C28: once the startup effect has finished, and after every add, edit,
\* delete and clear-data done from then on in the page, whether confirmed or
\* cancelled, the list in memory is the stored collection, element for
\* element and in the same order.
C28_MemoryAgreesWithStore ==
    pc = "ready" => expenses = getExpenses

\* memory and store hold the same three transactions: one edited, one added
\* after it, and before them an instance a reload generated
C28_Witness ==
    /\ pc = "ready"
    /\ runs = 2
    /\ Len(expenses) >= 3
    /\ expenses = getExpenses
    /\ \E i \in DOMAIN expenses : expenses[i].amount = 99
    /\ \E i \in DOMAIN expenses, k \in DOMAIN made : expenses[i].id = made[k].id

\* a delete has just been cancelled
C28_CancelCase ==
    /\ lastOp.kind = "delete" /\ ~lastOp.ok
    /\ expenses # <<>>


\* the places in a collection of the instances generated for the rule id
\* that are dated date
InstancesIn(list, id, date) ==
    {k \in DOMAIN list :
        /\ list[k].date = date
        /\ \E m \in DOMAIN made : made[m].id = list[k].id /\ made[m].rule = id}

\* C27: when the first materialization of a rule the form created for a
\* transaction dated d has ended, on a day not before d, it has generated
\* exactly one instance dated d; and if the transaction that was entered is
\* still in the collection as entered, the collection the run returns holds
\* the two of them, both dated d and both with the amount, category, payment
\* mode, note and type of the rule's template.
C27_SeedDuplication ==
    \A c \in DOMAIN created, i \in DOMAIN rules :
        LET id == created[c].rule
            d == created[c].date
            tpl == rules[i].expenseTemplate
            same(e) == /\ e.date = d
                       /\ e.amount = tpl.amount
                       /\ e.category = tpl.category
                       /\ e.paymentMode = tpl.paymentMode
                       /\ e.note = tpl.note
                       /\ e.type = tpl.type
        IN
        ( /\ RunEnded
          /\ rules[i].id = id
          /\ rules[i].nextDueDate = d
          /\ TDay >= EpochDay(d) ) =>
            /\ Instances(id, d) = 1
            /\ Cardinality(InstancesIn(processed, id, d)) = 1
            /\ \A k \in InstancesIn(processed, id, d) : same(processed[k])
            /\ \A k \in DOMAIN loadedExpenses :
                  (loadedExpenses[k].id = id - 1 /\ same(loadedExpenses[k])) =>
                     Cardinality({j \in DOMAIN processed :
                                     same(processed[j])}) >= 2


\* the ids of the stored rules
StoredRuleIds == {getRecurringRules[i].id : i \in DOMAIN getRecurringRules}

\* C30: a tab running the startup materialization writes back the whole
\* collections it read.  When its run generated, a rule the open page saved
\* after the tab read the rules and before it saved them is absent from the
\* rule store from that save on, and a transaction the open page saved after
\* the tab loaded the transactions and before it stored them is absent from
\* the transaction store once the tab has stored; what the page saved before
\* the tab read, or after it wrote, or while a tab that generated nothing
\* was running, is in the store.
C30_LostUpdate ==
    \A t \in Tabs, c \in DOMAIN created :
        LET seen == created[c].seen[t]
            rule == created[c].rule
            txn == created[c].rule - 1
        IN
        /\ tabs[t].pc \in {"store", "ready"} =>
              (rule \notin StoredRuleIds <=> (tabs[t].has /\ seen = "save"))
        /\ tabs[t].pc = "ready" =>
              (txn \notin StoredIds <=>
                  (tabs[t].has /\ seen \in {"rules", "save", "store"}))

\* the tab has finished; the rule and the transaction the open page saved
\* between the tab's read of the rules and its save are in neither store,
\* while the page still shows the transaction
C30_Witness ==
    \E c \in DOMAIN created :
        /\ tabs["left"].pc = "ready"
        /\ tabs["left"].has
        /\ created[c].seen["left"] = "save"
        /\ created[c].rule \notin StoredRuleIds
        /\ (created[c].rule - 1) \notin StoredIds
        /\ \E i \in DOMAIN expenses : expenses[i].id = created[c].rule - 1
        /\ lastOp.kind = "new" /\ lastOp.ok /\ lastOp.repeat

====
